---- MODULE Spec2Model ----
(***************************************************************************)
(* Model of node-mavlink-ftp (src/index.ts): the FTP payload codec, the    *)
(* directory listing parser, the MavFTP transform filter and the MavFTP    *)
(* operations built on send().                                             *)
(***************************************************************************)
EXTENDS Integers, Sequences, FiniteSets, TLC

\* ------------------------------------------------------------------ bounds
\* inbound packets the filter processes in one behaviour
MaxPackets == 4
\* public operations one caller invokes in one behaviour
MaxOps == 2
\* inbound packets while two callers use the engine at the same time
ConcPackets == 1
\* packets a collecting downstream consumer records
MaxCollected == 3
\* records in a generated directory listing
MaxRecords == 2
\* responses in flight between the remote server and the filter
MaxInFlight == 2
\* inbound packets while the remote server answers the requests
ServerPackets == 6
\* largest retry budget an engine is constructed with
MaxRetires == 7
\* inbound packets while an engine constructed with a retry budget is used
OptionPackets == 1
\* inbound packets while operations are invoked on non-ASCII paths
TextPackets == 2
\* longest data section of a payload taken through the codec
MaxDataLen == 251

\* --------------------------------------------------------- wire constants
\* common.MavFtpOpcode and common.FileTransferProtocol.MSG_ID (mavlink-mappings)
NONE == 0
TERMINATESESSION == 1
RESETSESSION == 2
LISTDIRECTORY == 3
OPENFILERO == 4
READFILE == 5
REMOVEFILE == 8
ACK == 128
NAK == 129
MSG_ID == 110
\* a message id of another sub-protocol sharing the stream (heartbeat)
OTHER_MSG_ID == 0

\* FileTransferProtocolError
EOF == 6
FailErrnoCode == 2
FileNotFoundCode == 10

\* number of bytes asked for by each READ_FILE request
READ_SIZE == 230
\* default of send()'s retry parameter
DefaultRetry == 6
\* the retires option of the constructor's default options
DefaultRetires == 6
\* sessions: initial value, value after reset, value after terminate
InitialSession == 1
ResetSession == 2
NoSession == 0
\* largest value writeUInt16LE accepts
MaxUInt16 == 65535
\* fixed header length of the FTP payload
HeaderLen == 12

\* ---------------------------------------------------------------- helpers
Cat(s, t) == s \o t

\* little-endian encodings used by Buffer.writeUInt16LE / writeUInt32LE
U16LE(n) == << n % 256, (n \div 256) % 256 >>
U32LE(n) == << n % 256, (n \div 256) % 256, (n \div 65536) % 256, (n \div 16777216) % 256 >>
RdU16LE(b, i) == b[i + 1] + 256 * b[i + 2]
RdU32LE(b, i) == b[i + 1] + 256 * b[i + 2] + 65536 * b[i + 3] + 16777216 * b[i + 4]

\* ------------------------------------------------------------------ codec
\* FileTransferProtocolPayload
Payload(seq, session, opcode, size, offset, data) ==
  [ seq |-> seq, session |-> session, opcode |-> opcode, size |-> size,
    reqOpcode |-> 0, burstComplete |-> 0, offset |-> offset, data |-> data ]

NoPayload == Payload(0, 0, NONE, 0, 0, << >>)

\* an optional field (reqOpcode?, offset?) that is absent
Undefined == 0 - 1

\* x || 0
OrZero(x) == IF x = Undefined THEN 0 ELSE x

\* serialize throws (ERR_OUT_OF_RANGE) when a field does not fit its width
SerializeThrows(p) ==
  \/ p.seq < 0 \/ p.seq > MaxUInt16
  \/ p.session < 0 \/ p.session > 255
  \/ p.size < 0 \/ p.size > 255

serialize(p) ==
  Cat(U16LE(p.seq),
  Cat(<< p.session, p.opcode, p.size, OrZero(p.reqOpcode), p.burstComplete, 0 >>,
  Cat(U32LE(OrZero(p.offset)), p.data)))

\* deserialize throws (ERR_OUT_OF_RANGE) when it reads past the end of the buffer
DeserializeThrows(b) ==
  \/ Len(b) < HeaderLen
  \/ Len(b) < HeaderLen + b[5]

\* a deserialize that reads the offset as a 16 bit field
deserializeShortOffset(b) ==
  [ seq |-> RdU16LE(b, 0), session |-> b[3], opcode |-> b[4], size |-> b[5],
    reqOpcode |-> b[6], burstComplete |-> b[7], offset |-> RdU16LE(b, 8),
    data |-> SubSeq(b, HeaderLen + 1, HeaderLen + b[5]) ]

deserialize(b) ==
  [ seq |-> RdU16LE(b, 0), session |-> b[3], opcode |-> b[4], size |-> b[5],
    reqOpcode |-> b[6], burstComplete |-> b[7], offset |-> RdU32LE(b, 8),
    data |-> SubSeq(b, HeaderLen + 1, HeaderLen + b[5]) ]

\* ----------------------------------------------------- error code table
\* FileTransferProtocolError[code]: the enum's reverse mapping; a code outside
\* the enum (or data[0] of empty data) maps to undefined
FileTransferProtocolError(code) ==
  CASE code = 0 -> "None"
    [] code = 1 -> "Fail"
    [] code = 2 -> "FailErrno"
    [] code = 3 -> "InvalidDataSize"
    [] code = 4 -> "InvalidSession"
    [] code = 5 -> "NoSessionsAvailable"
    [] code = 6 -> "EOF"
    [] code = 7 -> "UnknownCommand"
    [] code = 8 -> "FileExists"
    [] code = 9 -> "FileProtected"
    [] code = 10 -> "FileNotFound"
    [] OTHER -> "undefined"

\* response.data[0]; -1 stands for undefined (empty data)
Data0(data) == IF Len(data) > 0 THEN data[1] ELSE 0 - 1

\* ------------------------------------------------ directory listing parser
\* MavFTPDirectoryListingParserState
ST_TYPE == 0
ST_FILE_NAME == 1
ST_SIZE == 2
ST_DIR_NAME == 3
ST_STORE == 5

\* character codes the parser compares against
CH_F == 70
CH_D == 68
CH_TAB == 9
CH_NUL == 0

\* size of an entry: null, a number, or NaN
SizeNull == [ kind |-> "null", val |-> 0 ]
SizeInt(n) == [ kind |-> "int", val |-> n ]
SizeNaN == [ kind |-> "NaN", val |-> 0 ]

IsWhiteSpace(c) == c \in {9, 10, 11, 12, 13, 32}
IsDigit(c) == c >= 48 /\ c <= 57

RECURSIVE SkipWhiteSpace(_)
SkipWhiteSpace(s) ==
  IF s # << >> /\ IsWhiteSpace(Head(s)) THEN SkipWhiteSpace(Tail(s)) ELSE s

\* the leading decimal digits of s: [n |-> how many, val |-> their value]
RECURSIVE LeadingDigits(_, _, _)
LeadingDigits(s, n, val) ==
  IF s # << >> /\ IsDigit(Head(s))
  THEN LeadingDigits(Tail(s), n + 1, 10 * val + (Head(s) - 48))
  ELSE [ n |-> n, val |-> val ]

\* JavaScript parseInt(string) on a string given as its character codes:
\* leading white space is skipped, an optional sign is read, then the longest
\* prefix of decimal digits; no digit gives NaN
parseInt(str) ==
  LET s == SkipWhiteSpace(str)
      neg == s # << >> /\ Head(s) = 45
      signed == s # << >> /\ Head(s) \in {43, 45}
      d == LeadingDigits(IF signed THEN Tail(s) ELSE s, 0, 0)
  IN  IF d.n = 0 THEN SizeNaN
      ELSE SizeInt(IF neg THEN 0 - d.val ELSE d.val)

EmptyEntry == [ type |-> "", name |-> << >>, size |-> << >> ]

\* the entry pushed by the STORE state
StoredEntry(entry) ==
  [ type |-> entry.type, name |-> entry.name,
    size |-> IF entry.type = "file" THEN parseInt(entry.size) ELSE SizeNull ]

ParserStart ==
  [ state |-> ST_TYPE, entry |-> EmptyEntry, result |-> << >>, thrown |-> FALSE ]

\* one iteration of the for loop of parse: the switch on state for byte b
ParseByte(ps, b) ==
  IF ps.state = ST_TYPE THEN
    IF b = CH_F THEN [ ps EXCEPT !.entry.type = "file", !.state = ST_FILE_NAME ]
    ELSE IF b = CH_D THEN [ ps EXCEPT !.entry.type = "directory", !.state = ST_DIR_NAME ]
    ELSE [ ps EXCEPT !.thrown = TRUE ]
  ELSE IF ps.state = ST_FILE_NAME THEN
    IF b = CH_TAB THEN [ ps EXCEPT !.state = ST_SIZE ]
    ELSE [ ps EXCEPT !.entry.name = Append(@, b) ]
  ELSE IF ps.state = ST_SIZE THEN
    IF b = CH_NUL THEN [ ps EXCEPT !.state = ST_STORE ]
    ELSE [ ps EXCEPT !.entry.size = Append(@, b) ]
  ELSE IF ps.state = ST_DIR_NAME THEN
    IF b = CH_NUL THEN [ ps EXCEPT !.state = ST_STORE ]
    ELSE [ ps EXCEPT !.entry.name = Append(@, b) ]
  ELSE \* ST_STORE: the byte at this position is not looked at
    [ ps EXCEPT !.state = ST_TYPE,
                !.result = Append(@, StoredEntry(ps.entry)),
                !.entry = EmptyEntry ]

RECURSIVE ParseLoop(_, _, _)
ParseLoop(data, i, ps) ==
  IF i > Len(data) \/ ps.thrown THEN ps
  ELSE ParseLoop(data, i + 1, ParseByte(ps, data[i]))

\* MavFTPDirectoryListingParser.parse: [thrown, result]
parse(data) ==
  LET ps == ParseLoop(data, 1, ParserStart)
  IN  [ thrown |-> ps.thrown, result |-> IF ps.thrown THEN << >> ELSE ps.result ]

\* TextEncoder.encode on a string given as its code points (below 2048): UTF-8
RECURSIVE textEncode(_)
textEncode(str) ==
  IF str = << >> THEN << >>
  ELSE LET c == Head(str)
       IN  Cat(IF c < 128 THEN << c >> ELSE << 192 + (c \div 64), 128 + (c % 64) >>,
               textEncode(Tail(str)))

\* ------------------------------------------------------------------ state
\* callers of the public operations of one MavFTP instance
Callers == {"a", "b"}

VARIABLES
  options,     \* the options the engine was constructed with
  session,     \* MavFTP.session
  sequence,    \* MavFTP.sequence
  broken,      \* _transform has thrown: the stream processes no further packet
  call,        \* per caller: the frame of its operation (locals, position)
  opsLeft,     \* per caller: operations it may still invoke
  pktLeft,     \* packets that may still be written into the filter
  collected,   \* packets a collecting downstream consumer has received
  net,         \* responses of the remote server in flight to the filter
  served,      \* per caller: transmissions of its exchange the server has seen
  records,     \* directory records a listing is generated from
  listing,     \* bytes handed to the directory listing parser
  parsed,      \* what parse returned for listing
  codec        \* a payload taken through serialize and deserialize

vars == << options, session, sequence, broken, call, opsLeft, pktLeft, collected, net,
           served, records, listing, parsed, codec >>

engineVars == << options, session, sequence, broken, call, opsLeft, pktLeft >>
parserVars == << records, listing, parsed >>

\* ----------------------------------------------------------------- frames
NoError == [ name |-> "", at |-> NONE ]
Err(name, at) == [ name |-> name, at |-> at ]

ExchangeFailed == "Sending MavFTP message failed"
FilesystemError == "Filesystem error (2)"
UnableToRead == "Unable to read contents of file"
UnknownEntryType == "Unknown entry type"
RangeError == "RangeError"

NoPending == [ kind |-> "none", error |-> NoError, value |-> << >> ]
NoOutcome == [ status |-> "none", error |-> NoError, value |-> << >> ]
Ok(value) == [ status |-> "ok", error |-> NoError, value |-> value ]
Failed(err) == [ status |-> "error", error |-> err, value |-> << >> ]

IdleFrame ==
  [ pc |-> "idle", op |-> "none", phase |-> "none", path |-> << >>,
    req |-> NoPayload, msg |-> << >>, retry |-> 0, sent |-> << >>,
    resp |-> NoPayload, listResult |-> << >>, fileResult |-> << >>,
    offset |-> 0, size |-> 0, opened |-> FALSE, progress |-> << >>,
    pending |-> NoPending, outcome |-> NoOutcome ]

\* the engine as one caller sees it: the shared fields and the caller's frame
Engine(c) == [ session |-> session, sequence |-> sequence, f |-> call[c] ]

\* the operation settles: its promise resolves or rejects with outcome
Complete(E, outcome) == [ E EXCEPT !.f.pc = "idle", !.f.outcome = outcome ]

\* arguments of packet(): a string, a number or a byte array
StringArg(str) == [ type |-> "string", val |-> str, num |-> 0 ]
NumberArg(n) == [ type |-> "number", val |-> << >>, num |-> n ]
BytesArg(b) == [ type |-> "bytes", val |-> b, num |-> 0 ]

\* MavFTP.packet: the payload handed to serialize
packet(E, opcode, arg, offset) ==
  [ Payload(E.sequence, E.session, opcode,
            IF arg.type = "number" THEN arg.num ELSE Len(arg.val),
            offset,
            IF arg.type = "string" THEN textEncode(arg.val)
            ELSE IF arg.type = "number" THEN << >> ELSE arg.val)
      EXCEPT !.reqOpcode = Undefined ]

\* a retry budget that is one too large
sendRetryOffByOne == DefaultRetry + 1

\* send()'s default retry budget
sendRetry == DefaultRetry

\* the retry budget after a failed attempt: --retry
RetryAfterFailure(retry) == retry - 1

RECURSIVE Throw(_, _)

\* this.send(this.packet(opcode, arg, offset)) up to its first await: the
\* payload is serialized once, the sequence advanced, the message written
Send(E, opcode, arg, offset) ==
  LET p == packet(E, opcode, arg, offset)
  IN  IF SerializeThrows(p) THEN Throw(E, Err(RangeError, opcode))
      ELSE [ E EXCEPT !.sequence = E.sequence + 1,
                      !.f.req = p,
                      !.f.msg = serialize(p),
                      !.f.retry = sendRetry,
                      !.f.sent = << serialize(p) >>,
                      !.f.pc = "write" ]

\* terminateSession's request
terminateSessionSend(E) == Send(E, TERMINATESESSION, BytesArg(<< >>), 0)

\* the finally block of downloadFile: terminateSession is called with the
\* completion of the try block pending
Finally(E, pending) ==
  terminateSessionSend([ E EXCEPT !.f.phase = "terminate", !.f.pending = pending ])

\* an exception in the operation of frame E.f: inside downloadFile's try block
\* it runs the finally block first, elsewhere it rejects the operation
Throw(E, err) ==
  IF E.f.op = "download" /\ E.f.phase = "read"
  THEN Finally(E, [ kind |-> "throw", error |-> err, value |-> << >> ])
  ELSE Complete(E, Failed(err))

\* what downloadFile settles with once the finally block has completed normally
FinallyDone(E) ==
  IF E.f.pending.kind = "throw" THEN Complete(E, Failed(E.f.pending.error))
  ELSE Complete(E, Ok(E.f.pending.value))

\* handleError: the message of the error thrown for response, "" when it returns
handleError(response) ==
  IF response.opcode = NAK
  THEN IF Data0(response.data) = FailErrnoCode
       THEN FilesystemError
       ELSE FileTransferProtocolError(Data0(response.data))
  ELSE ""

\* an error raised while the exchange of E.f.req was being handled
ErrHere(E, name) == Err(name, E.f.req.opcode)

\* send() without the assignment of line 289
AdoptSeqSkipped(E, response) == E

\* send(), line 289: the response's seq becomes the engine's sequence
AdoptSeq(E, response) == [ E EXCEPT !.sequence = response.seq ]

\* resetSessions after send returned response
resetSessions(E, response) ==
  IF handleError(response) # "" THEN Throw(E, ErrHere(E, handleError(response)))
  ELSE Complete(IF response.opcode = ACK THEN [ E EXCEPT !.session = ResetSession ] ELSE E,
                Ok(<< >>))

\* a listing that always asks for the first page
listOffsetZero(result) == 0

\* the offset of the next LIST_DIRECTORY request: result.length
listOffset(result) == Len(result)

listDirectorySend(E) ==
  Send(E, LISTDIRECTORY, StringArg(E.f.path), listOffset(E.f.listResult))

\* listDirectory: one turn of the while loop after send returned response
listDirectory(E, response) ==
  IF response.opcode = ACK THEN
    LET entries == parse(response.data)
    IN  IF entries.thrown THEN Throw(E, ErrHere(E, UnknownEntryType))
        ELSE listDirectorySend([ E EXCEPT !.f.listResult = Cat(@, entries.result) ])
  ELSE IF Data0(response.data) # EOF
       THEN Throw(E, ErrHere(E, FileTransferProtocolError(Data0(response.data))))
       ELSE Complete(E, Ok(E.f.listResult))

readFileSend(E) == Send(E, READFILE, NumberArg(READ_SIZE), E.f.offset)

\* reportProgress with downloadFile's onProgress callback: the invocations of
\* the callback are recorded in order
reportProgress(E, offset, totalSize) ==
  [ E EXCEPT !.f.progress = Append(@, [ offset |-> offset, totalSize |-> totalSize ]) ]

\* openFileRO after send returned response, followed by the start of readFile
\* inside downloadFile's try block
openFileRO(E, response) ==
  IF handleError(response) # "" THEN Throw(E, ErrHere(E, handleError(response)))
  ELSE LET E1 == [ E EXCEPT !.session = response.session ]
       IN  IF response.size > 0 /\ Len(response.data) < 4
           THEN Throw(E1, ErrHere(E1, RangeError))
           ELSE LET size == IF response.size > 0 THEN RdU32LE(response.data, 0) ELSE 0
                IN  readFileSend(
                      reportProgress(
                        [ E1 EXCEPT !.f.size = size,
                                    !.f.opened = TRUE,
                                    !.f.phase = "read",
                                    !.f.fileResult = << >>,
                                    !.f.offset = 0 ],
                        0, size))

\* readFile: one turn of the while loop after send returned response
readFile(E, response) ==
  IF response.opcode = ACK THEN
    readFileSend(reportProgress([ E EXCEPT !.f.fileResult = Cat(@, response.data),
                                           !.f.offset = @ + Len(response.data) ],
                                E.f.offset + Len(response.data), E.f.size))
  ELSE IF Data0(response.data) = EOF
       THEN Finally(reportProgress(E, E.f.size, E.f.size),
                    [ kind |-> "return", error |-> NoError, value |-> E.f.fileResult ])
       ELSE Throw(E, ErrHere(E, UnableToRead))

\* terminateSession after send returned response, then the end of downloadFile
terminateSession(E, response) ==
  IF handleError(response) # "" THEN Throw(E, ErrHere(E, handleError(response)))
  ELSE FinallyDone([ E EXCEPT !.session = NoSession ])

\* a removeFile that fails on NAK only
removeFileNakOnly(E, response) ==
  IF response.opcode = NAK
  THEN Throw(E, ErrHere(E, FileTransferProtocolError(Data0(response.data))))
  ELSE Complete(E, Ok(<< >>))

\* removeFile after send returned response
removeFile(E, response) ==
  IF response.opcode # ACK
  THEN Throw(E, ErrHere(E, FileTransferProtocolError(Data0(response.data))))
  ELSE Complete(E, Ok(<< >>))

\* the continuation of the operation that awaits send
Continue(E, response) ==
  CASE E.f.op = "reset" -> resetSessions(E, response)
    [] E.f.op = "list" -> listDirectory(E, response)
    [] E.f.op = "remove" -> removeFile(E, response)
    [] E.f.op = "download" /\ E.f.phase = "open" -> openFileRO(E, response)
    [] E.f.op = "download" /\ E.f.phase = "read" -> readFile(E, response)
    [] E.f.op = "download" /\ E.f.phase = "terminate" -> terminateSession(E, response)

\* send(): waitForEvent resolved with response
sendResolved(E, response) == Continue(AdoptSeq(E, response), response)

\* send(): the catch block, after a timeout or a failed write
sendCaught(E) ==
  IF RetryAfterFailure(E.f.retry) > 0
  THEN [ E EXCEPT !.f.retry = RetryAfterFailure(E.f.retry),
                  !.f.sent = Append(@, E.f.msg),
                  !.f.pc = "write" ]
  ELSE Throw([ E EXCEPT !.f.retry = RetryAfterFailure(E.f.retry) ],
             ErrHere(E, ExchangeFailed))

\* the first request of a public operation
FirstSend(E) ==
  CASE E.f.op = "reset" -> Send(E, RESETSESSION, BytesArg(<< >>), 0)
    [] E.f.op = "list" -> listDirectorySend(E)
    [] E.f.op = "remove" -> Send(E, REMOVEFILE, StringArg(E.f.path), 0)
    [] E.f.op = "download" -> Send(E, OPENFILERO, StringArg(E.f.path), 0)

\* ------------------------------------------------------------ environment
\* the session id the remote server hands out
ServerSession == 3

\* a response payload as the remote builds it
Resp(seq, opcode, data) == Payload(seq, ServerSession, opcode, Len(data), 0, data)

\* a MavLinkPacket: its message id and the FTP payload bytes it carries
FtpPacket(bytes) == [ msgid |-> MSG_ID, payload |-> bytes ]
OtherPacket == [ msgid |-> OTHER_MSG_ID, payload |-> << >> ]
\* an FTP packet whose size byte announces more data than the buffer holds
TruncatedPacket == FtpPacket(<< 9, 0, 3, 128, 4, 0, 0, 0, 0, 0, 0, 0, 68 >>)

\* response data: a directory listing "Da" NUL NUL (read as 4 bytes it is a
\* file size, and it is a file chunk too), a lone 'X' (no entry type, and too
\* short for a file size), and the error codes EOF / FileNotFound / FailErrno
ListingData == << 68, 97, 0, 0 >>
Responses ==
  { Resp(7, ACK, << >>), Resp(7, ACK, ListingData), Resp(7, ACK, << 88 >>),
    Resp(MaxUInt16, ACK, ListingData),
    Resp(7, NAK, << 6 >>), Resp(7, NAK, << 10 >>), Resp(7, NAK, << 2 >>),
    Resp(7, NONE, << 6 >>) }
Packets == { FtpPacket(serialize(r)) : r \in Responses } \cup { OtherPacket, TruncatedPacket }

\* arguments of the public operations: the path "/"
Paths == { << 47 >> }
Ops == { "reset", "list", "download", "remove" }

\* ---------------------------------------------------------------- actions
\* whether _transform throws on packet (deserialize reads past the buffer)
TransformThrows(p) == p.msgid = MSG_ID /\ DeserializeThrows(p.payload)

\* the packets _transform hands to callback(null, packet)
TransformPushes(p) == IF TransformThrows(p) THEN << >> ELSE << p >>

\* emit('ftp', payload): every waitForEvent listener registered now resolves
Emit(payload) ==
  [ c \in Callers |->
      IF call[c].pc = "wait"
      THEN [ call[c] EXCEPT !.pc = "got", !.resp = payload ]
      ELSE call[c] ]

\* MavFTP._transform
Transform(p) ==
  /\ ~broken
  /\ pktLeft > 0
  /\ pktLeft' = pktLeft - 1
  /\ IF p.msgid = MSG_ID
     THEN IF DeserializeThrows(p.payload)
          THEN /\ broken' = TRUE
               /\ UNCHANGED << sequence, call >>
          ELSE /\ sequence' = deserialize(p.payload).seq
               /\ call' = Emit(deserialize(p.payload))
               /\ UNCHANGED broken
     ELSE UNCHANGED << sequence, call, broken >>
  /\ UNCHANGED << options, session, opsLeft >>

\* a packet arrives while the stream is consumed by resume(), which discards it
Receive(p) ==
  /\ Transform(p)
  /\ UNCHANGED << collected, net, served, parserVars, codec >>

\* the engine fields and the frame of caller c become those of E
Become(c, E) ==
  /\ session' = E.session
  /\ sequence' = E.sequence
  /\ call' = [ call EXCEPT ![c] = E.f ]

\* a caller invokes resetSessions, listDirectory, downloadFile or removeFile
Invoke(c, op, path) ==
  /\ call[c].pc = "idle"
  /\ opsLeft[c] > 0
  /\ opsLeft' = [ opsLeft EXCEPT ![c] = @ - 1 ]
  /\ Become(c, FirstSend([ session |-> session, sequence |-> sequence,
                           f |-> [ IdleFrame EXCEPT
                                     !.op = op, !.path = path,
                                     !.phase = IF op = "download" THEN "open" ELSE "none" ] ]))
  /\ served' = [ served EXCEPT ![c] = 0 ]
  /\ UNCHANGED << options, broken, pktLeft, collected, net, parserVars, codec >>

\* the write to the port completes: waitForEvent registers its listener
WriteOk(c) ==
  /\ call[c].pc = "write"
  /\ call' = [ call EXCEPT ![c].pc = "wait" ]
  /\ UNCHANGED << options, session, sequence, broken, opsLeft, pktLeft, collected, net,
                  served, parserVars, codec >>

\* whether the step from frame f to frame g started a new exchange
NewExchange(f, g) == g.pc = "write" /\ g.req # f.req

\* the catch block runs, for caller c
Caught(c) ==
  /\ Become(c, sendCaught(Engine(c)))
  /\ served' = [ served EXCEPT ![c] =
                   IF NewExchange(call[c], sendCaught(Engine(c)).f) THEN 0 ELSE @ ]
  /\ UNCHANGED << options, broken, opsLeft, pktLeft, collected, net, parserVars, codec >>

\* the write to the port fails
WriteFail(c) ==
  /\ call[c].pc = "write"
  /\ Caught(c)

\* waitForEvent times out
Timeout(c) ==
  /\ call[c].pc = "wait"
  /\ Caught(c)

\* the continuation of send() runs with the response its listener received,
\* and with it the operation up to its next await; packets processed by
\* _transform in the same turn of the event loop come before it
Resume(c) ==
  /\ call[c].pc = "got"
  /\ Become(c, sendResolved(Engine(c), call[c].resp))
  /\ served' = [ served EXCEPT ![c] =
                   IF NewExchange(call[c], sendResolved(Engine(c), call[c].resp).f)
                   THEN 0 ELSE @ ]
  /\ UNCHANGED << options, broken, opsLeft, pktLeft, collected, net, parserVars, codec >>

\* ---------------------------------------------------------- specification
\* the constructor's default options
DefaultOptions == [ retires |-> DefaultRetires ]

\* the engine after construction with options opts; the budgets bound the
\* behaviour
Constructor(opts, ops, packets) ==
  /\ options = opts
  /\ session = InitialSession
  /\ sequence = 0
  /\ broken = FALSE
  /\ call = [ c \in Callers |-> IdleFrame ]
  /\ opsLeft = ops
  /\ pktLeft = packets
  /\ collected = << >>
  /\ net = << >>
  /\ served = [ c \in Callers |-> 0 ]

\* the engine constructed without an options argument
InitEngine(ops, packets) == Constructor(DefaultOptions, ops, packets)

\* no payload is being taken through the codec on its own
NoCodec == [ step |-> "none", p |-> NoPayload, wire |-> << >>, q |-> NoPayload ]

InitParser ==
  /\ records = << >>
  /\ listing = << >>
  /\ parsed = [ done |-> FALSE, thrown |-> FALSE, result |-> << >> ]
  /\ codec = NoCodec

\* one caller invokes operations one after the other
Init == InitEngine([ c \in Callers |-> IF c = "a" THEN MaxOps ELSE 0 ], MaxPackets) /\ InitParser

Next ==
  \/ \E c \in Callers, op \in Ops, path \in Paths : Invoke(c, op, path)
  \/ \E c \in Callers : WriteOk(c)
  \/ \E c \in Callers : WriteFail(c)
  \/ \E c \in Callers : Timeout(c)
  \/ \E c \in Callers : Resume(c)
  \/ \E p \in Packets : Receive(p)

Spec == Init /\ [][Next]_vars

\* two callers use the same engine, one operation each
InitConc == InitEngine([ c \in Callers |-> 1 ], ConcPackets) /\ InitParser

SpecConc == InitConc /\ [][Next]_vars

\* one caller, one operation, on an engine constructed with a retry budget
InitOptions ==
  /\ \E n \in 1..MaxRetires :
       Constructor([ retires |-> n ],
                   [ c \in Callers |-> IF c = "a" THEN 1 ELSE 0 ], OptionPackets)
  /\ InitParser

SpecOptions == InitOptions /\ [][Next]_vars

\* paths with a character outside ASCII: "/" and "/\u00e9"
TextPaths == Paths \cup { << 47, 233 >> }

\* one caller, one operation, on any of these paths
InitText ==
  InitEngine([ c \in Callers |-> IF c = "a" THEN 1 ELSE 0 ], TextPackets) /\ InitParser

NextText ==
  \/ \E c \in Callers, op \in Ops, path \in TextPaths : Invoke(c, op, path)
  \/ \E c \in Callers : WriteOk(c)
  \/ \E c \in Callers : WriteFail(c)
  \/ \E c \in Callers : Timeout(c)
  \/ \E c \in Callers : Resume(c)
  \/ \E p \in Packets : Receive(p)

SpecText == InitText /\ [][NextText]_vars

\* ------------------------------------------- the filter seen from downstream
\* a packet arrives while a downstream consumer records what the filter pushes
ReceiveCollected(p) ==
  /\ Transform(p)
  /\ collected' = Cat(collected, TransformPushes(p))
  /\ UNCHANGED << net, served, parserVars, codec >>

InitFilter == InitEngine([ c \in Callers |-> 0 ], MaxCollected) /\ InitParser

NextFilter == \E p \in Packets : ReceiveCollected(p)

SpecFilter == InitFilter /\ [][NextFilter]_vars

\* ------------------------------------------------------- the remote server
\* the file the remote serves and the number of bytes it returns per read
RemoteFile == << 11, 12, 13 >>
ChunkLen == 2
\* the remote directory's only entry as the remote lists it: 'D' 'a' NUL
RemoteEntry == << CH_D, 97, CH_NUL >>

Min(a, b) == IF a < b THEN a ELSE b

\* the header fields of a request as the remote reads them off the wire
RequestHeader(b) ==
  [ seq |-> RdU16LE(b, 0), session |-> b[3], opcode |-> b[4], size |-> b[5],
    offset |-> RdU32LE(b, 8) ]

\* the remote's reply to the request in buffer b
ServerReply(b) ==
  LET r == RequestHeader(b)
      seq == (r.seq + 1) % (MaxUInt16 + 1)
  IN  CASE r.opcode = OPENFILERO -> Resp(seq, ACK, U32LE(Len(RemoteFile)))
        [] r.opcode = READFILE ->
             IF r.offset < Len(RemoteFile)
             THEN Resp(seq, ACK, SubSeq(RemoteFile, r.offset + 1,
                                        Min(r.offset + ChunkLen, Len(RemoteFile))))
             ELSE Resp(seq, NAK, << EOF >>)
        [] r.opcode = LISTDIRECTORY ->
             IF r.offset = 0 THEN Resp(seq, ACK, RemoteEntry)
             ELSE Resp(seq, NAK, << EOF >>)
        [] r.opcode = REMOVEFILE -> Resp(seq, NAK, << FileNotFoundCode >>)
        [] OTHER -> Resp(seq, ACK, << >>)

\* the remote receives the next transmission of caller c's exchange and replies
Serve(c) ==
  /\ served[c] < Len(call[c].sent)
  /\ served[c] + 1 < Len(call[c].sent) \/ call[c].pc # "write"
  /\ Len(net) < MaxInFlight
  /\ served' = [ served EXCEPT ![c] = @ + 1 ]
  /\ net' = Append(net, ServerReply(call[c].sent[served[c] + 1]))
  /\ UNCHANGED << engineVars, collected, parserVars, codec >>

\* the next transmission of caller c's exchange is lost on the way to the remote
LoseRequest(c) ==
  /\ served[c] < Len(call[c].sent)
  /\ served' = [ served EXCEPT ![c] = @ + 1 ]
  /\ UNCHANGED << engineVars, collected, net, parserVars, codec >>

\* the oldest response in flight reaches the filter
Deliver ==
  /\ net # << >>
  /\ Transform(FtpPacket(serialize(Head(net))))
  /\ net' = Tail(net)
  /\ UNCHANGED << collected, served, parserVars, codec >>

\* the oldest response in flight is lost
LoseResponse ==
  /\ net # << >>
  /\ net' = Tail(net)
  /\ UNCHANGED << engineVars, collected, served, parserVars, codec >>

\* one caller, one operation; every write to the port succeeds
InitServer ==
  InitEngine([ c \in Callers |-> IF c = "a" THEN 1 ELSE 0 ], ServerPackets) /\ InitParser

NextServer ==
  \/ \E c \in Callers, op \in Ops, path \in Paths : Invoke(c, op, path)
  \/ \E c \in Callers : WriteOk(c)
  \/ \E c \in Callers : Timeout(c)
  \/ \E c \in Callers : Resume(c)
  \/ \E c \in Callers : Serve(c)
  \/ \E c \in Callers : LoseRequest(c)
  \/ Deliver
  \/ LoseResponse

SpecServer == InitServer /\ [][NextServer]_vars

\* ------------------------------------------------- the parser on its own
\* directory records as the parser is meant to return them
FileRecord(name, size) == [ type |-> "file", name |-> name, size |-> SizeInt(size) ]
DirRecord(name) == [ type |-> "directory", name |-> name, size |-> SizeNull ]

\* 'file.txt' 1234, 'logs', 'a' 7, 'b'
RecordSet ==
  { FileRecord(<< 102, 105, 108, 101, 46, 116, 120, 116 >>, 1234),
    DirRecord(<< 108, 111, 103, 115 >>),
    FileRecord(<< 97 >>, 7),
    DirRecord(<< 98 >>) }

RECURSIVE Digits(_)
Digits(n) == IF n < 10 THEN << 48 + n >> ELSE Append(Digits(n \div 10), 48 + (n % 10))

\* the bytes of one record on the wire
WireRecord(r) ==
  IF r.type = "file"
  THEN Cat(<< CH_F >>, Cat(r.name, Cat(<< CH_TAB >>, Cat(Digits(r.size.val), << CH_NUL >>))))
  ELSE Cat(<< CH_D >>, Cat(r.name, << CH_NUL >>))

RECURSIVE WireListing(_)
WireListing(rs) ==
  IF rs = << >> THEN << >> ELSE Cat(WireRecord(Head(rs)), WireListing(Tail(rs)))

RecordSeqs == UNION { [ 1..n -> RecordSet ] : n \in 0..MaxRecords }

InitParse ==
  /\ InitEngine([ c \in Callers |-> 0 ], 0)
  /\ records \in RecordSeqs
  /\ listing \in { SubSeq(WireListing(records), 1, n) : n \in 0..Len(WireListing(records)) }
  /\ parsed = [ done |-> FALSE, thrown |-> FALSE, result |-> << >> ]
  /\ codec = NoCodec

\* parse is applied to listing
Parse ==
  /\ ~parsed.done
  /\ parsed' = [ done |-> TRUE, thrown |-> parse(listing).thrown,
                 result |-> parse(listing).result ]
  /\ UNCHANGED << engineVars, collected, net, served, records, listing, codec >>

NextParse == Parse

SpecParse == InitParse /\ [][NextParse]_vars

\* --------------------------------------------------- the codec on its own
\* payloads with data.length <= MaxDataLen and size = data.length: every field
\* at the ends of its range and in between, reqOpcode and offset also absent,
\* data of length 0, 1, 2 and MaxDataLen
CodecData ==
  { << >>, << 0 >>, << 255, 1 >>, [ i \in 1..MaxDataLen |-> i % 256 ] }

CodecPayloads ==
  { [ seq |-> seq, session |-> ses, opcode |-> opc, size |-> Len(data),
      reqOpcode |-> req, burstComplete |-> burst, offset |-> off, data |-> data ] :
      seq \in { 0, 258, MaxUInt16 }, ses \in { 0, 255 }, opc \in { NONE, READFILE, NAK },
      req \in { Undefined, 0, READFILE }, burst \in { 0, 1 },
      off \in { Undefined, 0, 16909060, 2147483647 }, data \in CodecData }

InitCodec ==
  /\ InitEngine([ c \in Callers |-> 0 ], 0)
  /\ records = << >>
  /\ listing = << >>
  /\ parsed = [ done |-> FALSE, thrown |-> FALSE, result |-> << >> ]
  /\ \E p \in CodecPayloads :
       codec = [ step |-> "payload", p |-> p, wire |-> << >>, q |-> NoPayload ]

\* serialize is applied to the payload
Serialize ==
  /\ codec.step = "payload"
  /\ codec' = IF SerializeThrows(codec.p)
              THEN [ codec EXCEPT !.step = "thrown" ]
              ELSE [ codec EXCEPT !.step = "serialized", !.wire = serialize(codec.p) ]
  /\ UNCHANGED << engineVars, collected, net, served, parserVars >>

\* deserialize is applied to the buffer serialize returned
Deserialize ==
  /\ codec.step = "serialized"
  /\ codec' = IF DeserializeThrows(codec.wire)
              THEN [ codec EXCEPT !.step = "thrown" ]
              ELSE [ codec EXCEPT !.step = "deserialized", !.q = deserialize(codec.wire) ]
  /\ UNCHANGED << engineVars, collected, net, served, parserVars >>

NextCodec == Serialize \/ Deserialize

SpecCodec == InitCodec /\ [][NextCodec]_vars

\* ================================================================= claims
InFlight(f) == f.pc \in {"write", "wait", "got"}
Settled(f) == f.pc = "idle" /\ f.op # "none"

\* the error raised by the step that took frame f to frame g: inside
\* downloadFile's try block it is held while the finally block runs, elsewhere
\* the operation settles with it
Raised(f, g) ==
  IF f.op = "download" /\ f.phase = "read" THEN g.pending.error ELSE g.outcome.error

\* C1: when downloadFile's read phase failed, the error downloadFile settles
\* with is the read phase's error, also when terminate fails afterwards
C1_ReadErrorSurfaced ==
  \A c \in Callers :
    (Settled(call[c]) /\ call[c].op = "download" /\ call[c].pending.kind = "throw")
      => call[c].outcome = Failed(call[c].pending.error)

\* C2: a downloadFile whose open succeeded has transmitted a TERMINATE_SESSION
\* request, after its last READ_FILE request, by the time it settles
C2_TerminateAlwaysSent ==
  \A c \in Callers :
    (Settled(call[c]) /\ call[c].op = "download" /\ call[c].opened)
      => /\ call[c].req.opcode = TERMINATESESSION
         /\ Len(call[c].sent) >= 1
         /\ RequestHeader(call[c].sent[1]).opcode = TERMINATESESSION

\* C3: a downloadFile that succeeds against the remote server returns exactly
\* the remote file's bytes, whatever responses were lost or delayed
C3_DownloadIsRemoteFile ==
  \A c \in Callers :
    (Settled(call[c]) /\ call[c].op = "download" /\ call[c].outcome.status = "ok")
      => call[c].outcome.value = RemoteFile

\* C4: every packet written into the filter is pushed downstream exactly once,
\* unchanged and in arrival order, FTP or not, decodable or not
C4_EveryPacketForwarded ==
  [][\A p \in Packets : ReceiveCollected(p) => collected' = Append(collected, p)]_vars

\* C5: an exchange whose attempts all fail is resent with the identical bytes
\* until exactly DefaultRetry attempts were made, and then fails with the
\* exchange-failed error
C5_RetryExhaustion ==
  [][\A c \in Callers :
       LET f == call[c]
           g == call'[c]
           caught == \/ f.pc = "wait" /\ g.pc # "got" /\ g # f
                     \/ f.pc = "write" /\ g # f /\ g # [ f EXCEPT !.pc = "wait" ]
       IN  /\ InFlight(g) =>
                /\ Len(g.sent) >= 1 /\ Len(g.sent) <= DefaultRetry
                /\ \A i \in 1..Len(g.sent) : g.sent[i] = serialize(g.req)
           /\ caught =>
                IF Len(f.sent) < DefaultRetry
                THEN /\ g.pc = "write"
                     /\ g.req = f.req
                     /\ g.sent = Append(f.sent, f.sent[1])
                ELSE /\ Raised(f, g) = Err(ExchangeFailed, f.req.opcode)
                     /\ g.req # f.req \/ g.sent = f.sent
     ]_vars

C5_Witness ==
  \E c \in Callers :
    /\ Settled(call[c])
    /\ call[c].outcome.error = Err(ExchangeFailed, call[c].req.opcode)
    /\ Len(call[c].sent) = DefaultRetry
    /\ \A i \in 1..Len(call[c].sent) : call[c].sent[i] = call[c].sent[1]

\* C6: the engine never has more than one exchange in flight
C6_OneExchangeInFlight ==
  Cardinality({ c \in Callers : InFlight(call[c]) }) <= 1

\* C7: when send returns a response the engine's sequence is that response's
\* seq: an operation that settles leaves it there, and the next request is
\* built from it
C7_SequenceAdopted ==
  [][\A c \in Callers :
       LET f == call[c]
           g == call'[c]
       IN  (f.pc = "got" /\ g.pc # "got") =>
             IF g.pc = "write"
             THEN g.req.seq = f.resp.seq /\ sequence' = f.resp.seq + 1
             ELSE sequence' = f.resp.seq
     ]_vars

C7_Witness ==
  \E c \in Callers :
    /\ Settled(call[c])
    /\ call[c].outcome.status = "ok"
    /\ call[c].resp.seq # call[c].req.seq + 1
    /\ sequence = call[c].resp.seq

C9_WellFormedListingParsed ==
  (parsed.done /\ listing = WireListing(records))
    => (~parsed.thrown /\ parsed.result = records)

\* C10: a NAK with code 10 makes the operation fail with FileNotFound, a NAK
\* with code 2 with the filesystem error rather than the table's FailErrno
C10_ErrorMapping ==
  [][\A c \in Callers :
       LET f == call[c]
           g == call'[c]
       IN  (f.pc = "got" /\ g.pc # "got" /\ f.resp.opcode = NAK) =>
             /\ Data0(f.resp.data) = FileNotFoundCode => Raised(f, g).name = "FileNotFound"
             /\ Data0(f.resp.data) = FailErrnoCode => Raised(f, g).name = FilesystemError
     ]_vars

\* C11: session changes only when a response with opcode ACK is handled: to
\* ResetSession by resetSessions, to the response's session by openFileRO, to
\* NoSession by terminateSession; those ACKs do change it, and no other step
\* (NAK, another opcode, a failed exchange, list, remove, read) does
C11_SessionTransitions ==
  [][/\ session' # session =>
          \E c \in Callers :
            /\ call[c].pc = "got"
            /\ call'[c] # call[c]
            /\ call[c].resp.opcode = ACK
            /\ \/ call[c].op = "reset" /\ session' = ResetSession
               \/ call[c].op = "download" /\ call[c].phase = "open"
                    /\ session' = call[c].resp.session
               \/ call[c].op = "download" /\ call[c].phase = "terminate"
                    /\ session' = NoSession
     /\ \A c \in Callers :
          (call[c].pc = "got" /\ call'[c] # call[c] /\ call[c].resp.opcode = ACK) =>
            /\ call[c].op = "reset" => session' = ResetSession
            /\ (call[c].op = "download" /\ call[c].phase = "open")
                 => session' = call[c].resp.session
            /\ (call[c].op = "download" /\ call[c].phase = "terminate")
                 => session' = NoSession
            /\ call[c].op \in {"list", "remove"} => session' = session
            /\ (call[c].op = "download" /\ call[c].phase = "read") => session' = session
    ]_vars

\* C12: an exchange gives up after exactly options.retires failed attempts:
\* with fewer attempts made a failed attempt is followed by a resend, with
\* options.retires attempts made it raises the exchange-failed error
C12_ConfiguredRetryBudget ==
  [][\A c \in Callers :
       LET f == call[c]
           g == call'[c]
           caught == \/ f.pc = "wait" /\ g.pc # "got" /\ g # f
                     \/ f.pc = "write" /\ g # f /\ g # [ f EXCEPT !.pc = "wait" ]
       IN  caught =>
             IF Len(f.sent) < options.retires
             THEN g.pc = "write" /\ g.req = f.req /\ g.sent = Append(f.sent, f.sent[1])
             ELSE Raised(f, g) = Err(ExchangeFailed, f.req.opcode)
     ]_vars

C14_RoundTripEveryPayload ==
  codec.step \in {"serialized", "thrown", "deserialized"} =>
    /\ codec.step # "thrown"
    /\ Len(codec.wire) = HeaderLen + Len(codec.p.data)
    /\ codec.step = "deserialized" => codec.q = codec.p

\* C14: every such payload serializes to HeaderLen + data.length bytes and
\* comes back equal to p in seq, session, opcode, size, burstComplete and data;
\* reqOpcode and offset come back equal when p has them and as 0 when p lacks
\* them
C14_RoundTrip ==
  codec.step \in {"serialized", "thrown", "deserialized"} =>
    /\ codec.step # "thrown"
    /\ Len(codec.wire) = HeaderLen + Len(codec.p.data)
    /\ codec.step = "deserialized" =>
         /\ codec.q = [ codec.p EXCEPT !.reqOpcode = OrZero(@), !.offset = OrZero(@) ]
         /\ (codec.p.reqOpcode # Undefined /\ codec.p.offset # Undefined)
              => codec.q = codec.p

C14_Witness ==
  /\ codec.step = "deserialized"
  /\ Len(codec.p.data) = MaxDataLen
  /\ codec.p.reqOpcode = READFILE
  /\ codec.p.offset > MaxUInt16
  /\ codec.q = codec.p

\* C15: in the read loop every READ_FILE request carries the number of bytes
\* received so far as its offset, an ACK appends its data to the result and
\* invokes the progress callback with the new offset, EOF invokes it with
\* offset = size and returns the result; in every invocation offset <=
\* totalSize, and the offsets of successive invocations never decrease
C15_ReadLoopProgress ==
  [][\A c \in Callers :
       LET f == call[c]
           g == call'[c]
           r == f.resp
           pr == g.progress
       IN  /\ (g.op = "download" /\ g.phase = "read" /\ InFlight(g)) =>
                /\ RequestHeader(g.msg).opcode = READFILE
                /\ RequestHeader(g.msg).offset = Len(g.fileResult)
           /\ (f.op = "download" /\ f.phase = "read" /\ f.pc = "got" /\ g.pc # "got") =>
                /\ r.opcode = ACK =>
                     /\ g.fileResult = Cat(f.fileResult, r.data)
                     /\ pr = Append(f.progress, [ offset |-> Len(g.fileResult),
                                                  totalSize |-> f.size ])
                /\ (r.opcode # ACK /\ Data0(r.data) = EOF) =>
                     /\ g.pending.value = f.fileResult
                     /\ pr = Append(f.progress, [ offset |-> f.size, totalSize |-> f.size ])
           /\ g.op = "download" =>
                /\ \A i \in 1..Len(pr) : pr[i].offset <= pr[i].totalSize
                /\ \A i \in 1..Len(pr) : \A j \in i..Len(pr) : pr[i].offset <= pr[j].offset
     ]_vars

\* C16: every request the engine transmits has a size field equal to the
\* length of its data section, in the payload it builds and on the wire
C16_RequestSizeIsDataLength ==
  \A c \in Callers :
    InFlight(call[c]) =>
      /\ call[c].req.size = Len(call[c].req.data)
      /\ \A i \in 1..Len(call[c].sent) :
           RequestHeader(call[c].sent[i]).size = Len(call[c].sent[i]) - HeaderLen

\* C17: sequence, the seq of the next request the engine builds, stays within
\* 0..MaxUInt16 in every reachable state
C17_SequenceInRange == sequence >= 0 /\ sequence <= MaxUInt16

\* C18: a new request that follows a response carries on the wire a seq
\* different from that response's seq; a resend carries the seq of the
\* transmission it repeats
C18_NewRequestIteratesSeq ==
  [][\A c \in Callers :
       LET f == call[c]
           g == call'[c]
       IN  /\ (f.pc = "got" /\ NewExchange(f, g)) =>
                RequestHeader(g.msg).seq # f.resp.seq
           /\ (InFlight(f) /\ g.pc = "write" /\ g.req = f.req /\ g.sent # f.sent) =>
                RequestHeader(g.sent[Len(g.sent)]).seq = RequestHeader(f.sent[1]).seq
     ]_vars

\* C19: within one listDirectory invocation every LIST_DIRECTORY request that
\* follows a response carries a larger offset than the request before it
C19_ListOffsetsIncrease ==
  [][\A c \in Callers :
       LET f == call[c]
           g == call'[c]
       IN  (f.op = "list" /\ f.pc = "got" /\ g.pc = "write") =>
             RequestHeader(g.msg).offset > RequestHeader(f.msg).offset
     ]_vars

\* the number of leading records of rs whose bytes lie within the first n
\* bytes of WireListing(rs)
RECURSIVE CompleteRecords(_, _)
CompleteRecords(rs, n) ==
  IF rs = << >> \/ Len(WireRecord(Head(rs))) > n THEN 0
  ELSE 1 + CompleteRecords(Tail(rs), n - Len(WireRecord(Head(rs))))

\* listing ends inside a record: after the complete records it holds a
\* non-empty proper prefix of the next one
EndsInsideRecord ==
  Len(listing) > Len(WireListing(SubSeq(records, 1, CompleteRecords(records, Len(listing)))))

\* C20: for a listing that ends inside a record parse raises no error and
\* returns exactly the complete records before the truncated one, in order
C20_TruncatedListing ==
  (parsed.done /\ EndsInsideRecord)
    => /\ ~parsed.thrown
       /\ parsed.result = SubSeq(records, 1, CompleteRecords(records, Len(listing)))

====
